---- MODULE Spec2Model ----
(***************************************************************************)
(* Model of the tuner in src/script.js: target note tables, note           *)
(* resolution (detectNote / manual window), the stability tracker          *)
(* (timeInTune, hasPlayedSound) and the start/stop/frame loop.             *)
(*                                                                         *)
(* Units: every frequency is an integer number of hundredths of a hertz    *)
(* (cHz), so 82.41 Hz is 8241.  Times are milliseconds.                    *)
(* A note key such as "F#3" is the pair <<"F#", 3>>; the pseudo key 'AUTO' *)
(* is <<"AUTO", 0>>.                                                       *)
(***************************************************************************)
EXTENDS Integers, Sequences, FiniteSets, TLC

VARIABLES
    isRunning,        \* script.js:21
    currentString,    \* script.js:22  note key or AUTO
    timeInTune,       \* script.js:31
    hasPlayedSound,   \* script.js:32
    guitarStrings,    \* script.js:40  sequence of entries in insertion order
    stringBtns,       \* notes of the .string-btn elements currently in the DOM
    pendingStarts,    \* startTuner calls suspended at an await
    rafPending,       \* updateLoop callbacks queued by requestAnimationFrame
    activeInstrument, \* script.js:125
    activeTuningName, \* script.js:124
    isChromaticMode,  \* script.js:126
    activeOscillator, \* script.js:35  NullRef or the oscillator playing the reference tone
    activeToneBtn,    \* script.js:36  NoBtn or the tone button that started it
    liveOscillators,  \* oscillators started and not stopped
    recentTunings,    \* localStorage 'recent-tunings', or RecentUntracked
    customTunings,    \* script.js:130  tunings the editor saved, as [id, name, notes]
    editingTuningId,  \* script.js:137  NullId or the id of the tuning being edited
    tempEditingState, \* script.js:138  [strings]: the note list under edit
    activeStringEditIndex, \* script.js:139  0-based index of the row being picked, or -1
    editorOpen,       \* customEditor is shown (no class 'hidden')
    pickerOpen,       \* notePickerModal is shown (no class 'hidden')
    stringsAlias,     \* id of the saved tuning whose notes array is tempEditingState.strings, or NullId
    editClicks,       \* history: clicks on plus, minus and the apply button of the picker that changed a note list so far
    ev,               \* history: the last operation and what it did
    dwellNotes        \* history: notes whose frames added to timeInTune since it was last reset

vars == <<isRunning, currentString, timeInTune, hasPlayedSound, guitarStrings,
          stringBtns, pendingStarts, rafPending, activeInstrument, activeTuningName,
          isChromaticMode, activeOscillator, activeToneBtn, liveOscillators,
          recentTunings, customTunings, editingTuningId, tempEditingState,
          activeStringEditIndex, editorOpen, pickerOpen, stringsAlias,
          editClicks, ev, dwellNotes>>

\* the reference tone
toneVars == <<activeOscillator, activeToneBtn, liveOscillators>>

\* the custom tuning editor and its note picker
editorVars == <<customTunings, editingTuningId, tempEditingState, activeStringEditIndex,
                editorOpen, pickerOpen, stringsAlias, editClicks>>

-----------------------------------------------------------------------------
(* Bounds of the model *)

MaxTimeInTune == 1100
MaxPendingStarts == 1
MaxRafPending == 1
MaxProbeNotes == 2
MaxCustomStrings == 2
MaxRacingStarts == 2
MaxChains == 2
MaxRecentChoices == 6
MaxSavedTunings == 1
MaxEditClicks == 6

\* frame intervals offered to updateLoop (ms)
DtSet == {350, 700}

-----------------------------------------------------------------------------
(* config, script.js:7-15 *)

tunedTolerance == 5
stableDuration == 600

\* 2^(tunedTolerance/1200) - 1 and 1 - 2^(-tunedTolerance/1200), in parts per million:
\* |1200*log2(c/t)| <= 5  <=>  -2884 ppm <= (c - t)/t <= 2892 ppm
TolUpPpm == 2892
TolDownPpm == 2884

-----------------------------------------------------------------------------
(* Special values of a JavaScript number *)

NoPitch == -100           \* the -1 sentinel returned by autoCorrelate (-1 Hz)
NaN == -999999            \* stands for the IEEE NaN; never used in arithmetic
Infinity == 999999999     \* stands for +Infinity: above every finite frequency

\* audioContext.sampleRate (Hz) and the first lag autoCorrelate searches
SampleRate == 48000
MinLag == 30

AUTO == <<"AUTO", 0>>
NullNote == [note |-> <<"null", 0>>, freq |-> 0]

\* JS comparisons: every comparison with NaN is false
JsGe(a, b) == a # NaN /\ b # NaN /\ a >= b
JsLe(a, b) == a # NaN /\ b # NaN /\ a <= b

Abs(x) == IF x < 0 THEN -x ELSE x

-----------------------------------------------------------------------------
(* Note data, script.js:40-121 *)

InitialGuitarStrings ==
    << [note |-> <<"E", 2>>, freq |-> 8241,  min |-> 7000,  max |-> 9500],
       [note |-> <<"A", 2>>, freq |-> 11000, min |-> 9500,  max |-> 12500],
       [note |-> <<"D", 3>>, freq |-> 14683, min |-> 13000, max |-> 16500],
       [note |-> <<"G", 3>>, freq |-> 19600, min |-> 17500, max |-> 21500],
       [note |-> <<"B", 3>>, freq |-> 24694, min |-> 22500, max |-> 27000],
       [note |-> <<"E", 4>>, freq |-> 32963, min |-> 30000, max |-> 36000] >>

INSTRUMENTS ==
    [ guitar |-> <<
        [name |-> "Standard", notes |-> << <<"E",2>>, <<"A",2>>, <<"D",3>>, <<"G",3>>, <<"B",3>>, <<"E",4>> >>],
        [name |-> "Drop D", notes |-> << <<"D",2>>, <<"A",2>>, <<"D",3>>, <<"G",3>>, <<"B",3>>, <<"E",4>> >>],
        [name |-> "Open D", notes |-> << <<"D",2>>, <<"A",2>>, <<"D",3>>, <<"F#",3>>, <<"A",3>>, <<"D",4>> >>],
        [name |-> "Open G", notes |-> << <<"D",2>>, <<"G",2>>, <<"D",3>>, <<"G",3>>, <<"B",3>>, <<"D",4>> >>],
        [name |-> "DADGAD", notes |-> << <<"D",2>>, <<"A",2>>, <<"D",3>>, <<"G",3>>, <<"A",3>>, <<"D",4>> >>],
        [name |-> "Half Step Down", notes |-> << <<"Eb",2>>, <<"Ab",2>>, <<"Db",3>>, <<"Gb",3>>, <<"Bb",3>>, <<"Eb",4>> >>] >>,
      bass |-> <<
        [name |-> "Standard", notes |-> << <<"E",1>>, <<"A",1>>, <<"D",2>>, <<"G",2>> >>],
        [name |-> "Drop D", notes |-> << <<"D",1>>, <<"A",1>>, <<"D",2>>, <<"G",2>> >>],
        [name |-> "Half Step Down", notes |-> << <<"Eb",1>>, <<"Ab",1>>, <<"Db",2>>, <<"Gb",2>> >>] >>,
      ukulele |-> <<
        [name |-> "Standard (GCEA)", notes |-> << <<"G",4>>, <<"C",4>>, <<"E",4>>, <<"A",4>> >>],
        [name |-> "D Tuning (ADF#B)", notes |-> << <<"A",4>>, <<"D",4>>, <<"F#",4>>, <<"B",4>> >>],
        [name |-> "Low G", notes |-> << <<"G",3>>, <<"C",4>>, <<"E",4>>, <<"A",4>> >>] >>,
      violin |-> <<
        [name |-> "Violin", notes |-> << <<"G",3>>, <<"D",4>>, <<"A",4>>, <<"E",5>> >>],
        [name |-> "Viola", notes |-> << <<"C",3>>, <<"G",3>>, <<"D",4>>, <<"A",4>> >>],
        [name |-> "Cello", notes |-> << <<"C",2>>, <<"G",2>>, <<"D",3>>, <<"A",3>> >>] >>,
      folk |-> <<
        [name |-> "Mandolin", notes |-> << <<"G",3>>, <<"D",4>>, <<"A",4>>, <<"E",5>> >>],
        [name |-> "Banjo (5-String)", notes |-> << <<"G",4>>, <<"D",3>>, <<"G",3>>, <<"B",3>>, <<"D",4>> >>],
        [name |-> "Balalaika", notes |-> << <<"E",4>>, <<"E",4>>, <<"A",4>> >>],
        [name |-> "Cavaquinho", notes |-> << <<"D",4>>, <<"G",4>>, <<"B",4>>, <<"D",5>> >>] >> ]

InstrumentKeys == {"guitar", "bass", "ukulele", "violin", "folk"}

NOTE_NAMES == <<"C", "C#", "D", "Eb", "E", "F", "F#", "G", "Ab", "A", "Bb", "B">>

\* Array.prototype.indexOf on NOTE_NAMES, 0-based, -1 when absent
NoteIndexOf(n) ==
    IF \E i \in 1..Len(NOTE_NAMES) : NOTE_NAMES[i] = n
    THEN (CHOOSE i \in 1..Len(NOTE_NAMES) : NOTE_NAMES[i] = n) - 1
    ELSE -1

\* the flatToSharp table of getNoteFreq
FlatToSharp(n) ==
    CASE n = "Eb" -> "D#"
      [] n = "Ab" -> "G#"
      [] n = "Bb" -> "A#"
      [] n = "Db" -> "C#"
      [] n = "Gb" -> "F#"
      [] OTHER -> n

\* names that match /^([A-Ga-g]+#?b?)$/ among the names the model uses
RegexNames == {"C", "C#", "D", "D#", "Db", "Eb", "E", "F", "F#", "Gb", "G", "G#",
               "Ab", "A", "A#", "Bb", "B"}

RECURSIVE Pow2(_)
Pow2(n) == IF n = 0 THEN 1 ELSE 2 * Pow2(n - 1)

\* 440 * 2^((96 + r - 57)/12) in cHz, r = 0..11: the twelve semitones of octave 8
Semitone8 == <<418601, 443492, 469864, 497803, 527404, 558765,
               591991, 627193, 664488, 704000, 745862, 790213>>

\* 440 * Math.pow(2, (thisIndex - 57) / 12), rounded to the nearest cHz
EqualTemperament(thisIndex) ==
    LET q == thisIndex \div 12
        r == thisIndex % 12
        d == Pow2(8 - q)
    IN  (Semitone8[r + 1] + (d \div 2)) \div d

getNoteFreq(noteWithOctave) ==
    IF noteWithOctave[1] \notin RegexNames THEN 0
    ELSE LET note == FlatToSharp(noteWithOctave[1])
             octave == noteWithOctave[2]
             noteIndex == NoteIndexOf(note)
             thisIndex == octave * 12 + noteIndex
         IN  EqualTemperament(thisIndex)

-----------------------------------------------------------------------------
(* Target tables: a JS object, kept as the sequence of its entries in      *)
(* insertion order (the order Object.entries iterates)                     *)

Keys(strs) == {strs[i].note : i \in 1..Len(strs)}

HasKey(strs, k) == \E i \in 1..Len(strs) : strs[i].note = k

Lookup(strs, k) == strs[CHOOSE i \in 1..Len(strs) : strs[i].note = k]

\* newStrings[note] = entry : an existing key keeps its place, a new key goes last
Put(strs, e) ==
    IF HasKey(strs, e.note)
    THEN [i \in 1..Len(strs) |-> IF strs[i].note = e.note THEN e ELSE strs[i]]
    ELSE Append(strs, e)

\* f * p / 100 rounded to the nearest cHz (p = 85, 115, 94, 106)
Scale(f, p) == (f * p + 50) \div 100

\* an entry whose window is the single point f
TuningEntry_PointWindow(note) ==
    LET f == getNoteFreq(note)
    IN  [note |-> note, freq |-> f, min |-> f, max |-> f]

\* script.js:381  { freq: f, min: f * 0.85, max: f * 1.15 }
TuningEntry(note) ==
    LET f == getNoteFreq(note)
    IN  [note |-> note, freq |-> f, min |-> Scale(f, 85), max |-> Scale(f, 115)]

\* script.js:373  { freq: f, min: f * 0.94, max: f * 1.06 }
ChromaticEntry(note) ==
    LET f == getNoteFreq(note)
    IN  [note |-> note, freq |-> f, min |-> Scale(f, 94), max |-> Scale(f, 106)]

RECURSIVE BuildStrings(_, _)
BuildStrings(notesArray, acc) ==
    IF notesArray = <<>> THEN acc
    ELSE BuildStrings(Tail(notesArray), Put(acc, TuningEntry(Head(notesArray))))

\* for i = 1..6, NOTE_NAMES.forEach : the k-th note generated, k = 0..71
ChromaticNote(k) == <<NOTE_NAMES[(k % 12) + 1], (k \div 12) + 1>>

\* the 72 keys are pairwise distinct, so every assignment appends
BuildChromatic == [k \in 1..72 |-> ChromaticEntry(ChromaticNote(k - 1))]

\* step 2 of applyTuning: the new value of guitarStrings
NewStrings(instrument, notesArray) ==
    IF instrument = "chromatic" THEN BuildChromatic
    ELSE BuildStrings(notesArray, <<>>)

-----------------------------------------------------------------------------
(* Resolution and cents, script.js:1153-1172 *)

\* detectNote without the early return on a containing window: nearest note only
RECURSIVE DetectFrom_NearestOnly(_, _, _, _, _)
DetectFrom_NearestOnly(strs, i, freq, closest, minDiff) ==
    IF i > Len(strs) THEN closest
    ELSE LET data == strs[i]
         IN  IF freq \notin {NaN, Infinity}
                /\ (closest = NullNote \/ Abs(freq - data.freq) < minDiff)
             THEN DetectFrom_NearestOnly(strs, i + 1, freq,
                                         [note |-> data.note, freq |-> data.freq],
                                         Abs(freq - data.freq))
             ELSE DetectFrom_NearestOnly(strs, i + 1, freq, closest, minDiff)

\* the loop of detectNote from entry i on; closest = NullNote stands for minDiff = Infinity
RECURSIVE DetectFrom(_, _, _, _, _)
DetectFrom(strs, i, freq, closest, minDiff) ==
    IF i > Len(strs) THEN closest
    ELSE LET data == strs[i]
         IN  IF JsGe(freq, data.min) /\ JsLe(freq, data.max)
             THEN [note |-> data.note, freq |-> data.freq]
             \* diff < minDiff is false when diff is NaN or Infinity
             ELSE IF freq \notin {NaN, Infinity}
                     /\ (closest = NullNote \/ Abs(freq - data.freq) < minDiff)
                  THEN DetectFrom(strs, i + 1, freq,
                                  [note |-> data.note, freq |-> data.freq],
                                  Abs(freq - data.freq))
                  ELSE DetectFrom(strs, i + 1, freq, closest, minDiff)

detectNote(strs, freq) == DetectFrom(strs, 1, freq, NullNote, 0)

\* Math.abs(calculateCents(current, target)) <= config.tunedTolerance.
\* log2 of a ratio that is not positive is NaN or -Infinity: never in tolerance.
InTolerance(current, target) ==
    /\ current \notin {NaN, Infinity}
    /\ current > 0
    /\ target > 0
    /\ IF current >= target
       THEN current - target <= 2000 /\ (current - target) * 1000000 <= target * TolUpPpm
       ELSE target - current <= 2000 /\ (target - current) * 1000000 <= target * TolDownPpm

\* floor(a * n / d) for a >= 0, n >= 0, d > 0, by binary long division, so
\* that no intermediate value exceeds 2 * d + n
RECURSIVE MulDiv(_, _, _)
MulDiv(a, n, d) ==
    IF a = 0 THEN [q |-> 0, r |-> 0]
    ELSE LET h == MulDiv(a \div 2, n, d)
             t == 2 * h.r + (a % 2) * n
         IN  [q |-> 2 * h.q + (t \div d), r |-> t % d]

\* the last step of autoCorrelate, script.js:1227-1232, for the chosen lag and
\* its neighbours prev, curr, next in c:
\*   shift = (prev - next) / (2 * (prev - 2 * curr + next))
\*   return sampleRate / (bestPeriod + shift)
\* in cHz; 0/0 is NaN, x/0 is an infinite shift (frequency 0), and a period of
\* exactly 0 gives Infinity.
Interpolate(prev, curr, next, bestPeriod, sampleRate) ==
    LET num == prev - next
        den == 2 * (prev - 2 * curr + next)
        d == bestPeriod * den + num
    IN  IF den = 0
        THEN IF num = 0 THEN NaN ELSE 0
        ELSE IF d = 0 THEN Infinity
        ELSE IF (den < 0) = (d < 0)
             THEN MulDiv(sampleRate * 100, Abs(den), Abs(d)).q
             ELSE 0 - MulDiv(sampleRate * 100, Abs(den), Abs(d)).q

-----------------------------------------------------------------------------
(* The stability tracker and processPitch, script.js:977-1104 *)

Outcome(t, h, kind, note, fired) ==
    [timeInTune |-> t, hasPlayedSound |-> h, kind |-> kind, note |-> note, fired |-> fired]

\* updateIndicators(cents, dt), with inTune = Math.abs(cents) <= config.tunedTolerance
updateIndicators(inTune, dt, note) ==
    IF inTune
    THEN LET t == timeInTune + dt
             fire == t > stableDuration /\ ~hasPlayedSound
         IN  Outcome(t, hasPlayedSound \/ fire, "inTune", note, fire)
    ELSE Outcome(0, FALSE, "outOfTune", note, FALSE)

\* the window test with both bounds exclusive
ManualInWindow_Exclusive(frequency, s) ==
    frequency # NaN /\ frequency > s.min /\ frequency < s.max

\* the manual-mode test of script.js:1020
ManualInWindow(frequency, s) == JsGe(frequency, s.min) /\ JsLe(frequency, s.max)

\* processPitch(frequency, dt) in the current state
processPitch(frequency, dt) ==
    IF frequency = NoPitch
    THEN Outcome(0, hasPlayedSound, "silent", NullNote.note, FALSE)
    ELSE IF currentString = AUTO
    THEN LET detected == detectNote(guitarStrings, frequency)
         IN  IF detected # NullNote
             THEN updateIndicators(InTolerance(frequency, detected.freq), dt, detected.note)
             ELSE Outcome(timeInTune, hasPlayedSound, "unresolved", NullNote.note, FALSE)
    ELSE IF ~HasKey(guitarStrings, currentString)
    THEN Outcome(timeInTune, hasPlayedSound, "throw", NullNote.note, FALSE)
    ELSE LET s == Lookup(guitarStrings, currentString)
         IN  IF ManualInWindow(frequency, s)
             THEN updateIndicators(InTolerance(frequency, s.freq), dt, currentString)
             ELSE Outcome(timeInTune, hasPlayedSound, "unresolved", NullNote.note, FALSE)

-----------------------------------------------------------------------------
(* Inputs *)

Min2(a, b) == IF a < b THEN a ELSE b

\* frequencies around one table entry: its reference, both window bounds, one
\* step outside each bound, and a value about 1% sharp of the reference
ProbesOf(e) == {e.freq, e.min, e.max, e.min - 1, e.max + 1, e.freq + (e.freq \div 100) + 1}

\* values autoCorrelate can hand to processPitch in the current state: the
\* sentinel, the result for a frame whose trimmed slice is all zero (one loud
\* click followed by zeros: c is 0 everywhere, the fallback picks the first lag),
\* and finite frequencies around the entries of the table
FrameFreqs ==
    {NoPitch, Interpolate(0, 0, 0, MinLag, SampleRate)}
    \cup UNION {ProbesOf(guitarStrings[i]) : i \in 1..Min2(Len(guitarStrings), MaxProbeNotes)}
    \cup (IF currentString # AUTO /\ HasKey(guitarStrings, currentString)
          THEN ProbesOf(Lookup(guitarStrings, currentString)) ELSE {})

\* notes the note picker offers (script.js:843) used for custom tunings
CustomNotes == {<<"E", 2>>, <<"D#", 3>>}

CustomTunings ==
    UNION {[1..n -> CustomNotes] : n \in 1..MaxCustomStrings}

\* note lists of entries of localStorage 'custom-tunings' (script.js:131-134) that
\* the editor did not write: a name the regex of getNoteFreq does not match
StoredTunings == { << <<"H", 2>> >>, << <<"E", 2>>, <<"H", 2>> >> }

\* every (instrument, notesArray) the model passes to applyTuning
TuningInputs ==
    UNION {{<<key, INSTRUMENTS[key][i].notes>> : i \in 1..Len(INSTRUMENTS[key])} :
              key \in InstrumentKeys}
    \cup {<<"chromatic", <<>> >>}
    \cup {<<"custom", notes>> : notes \in CustomTunings}
    \cup {<<"custom", notes>> : notes \in StoredTunings}

\* NewStrings tabulated over TuningInputs (evaluated once)
TargetTable == [x \in TuningInputs |-> NewStrings(x[1], x[2])]

\* step 2 of applyTuning, read from the table where it has the input
TargetStrings(instrument, notesArray) ==
    IF <<instrument, notesArray>> \in TuningInputs
    THEN TargetTable[<<instrument, notesArray>>]
    ELSE NewStrings(instrument, notesArray)

\* script.js:137  editingTuningId = null
NullId == 0

\* the record kept in ev; wasPlayed is hasPlayedSound before the operation,
\* frame names the buffer autoCorrelate analysed (NoFrame when not tracked)
NoFrame == "none"

Event(op, kind, freq, note, fired) ==
    [op |-> op, kind |-> kind, freq |-> freq, note |-> note, fired |-> fired,
     wasPlayed |-> hasPlayedSound, frame |-> NoFrame]

Plain(op) == Event(op, "", 0, NullNote.note, FALSE)

-----------------------------------------------------------------------------
(* autoCorrelate, script.js:1175-1235                                      *)
(*                                                                         *)
(* A frame is the content of the Float32Array(config.bufferSize) handed to *)
(* autoCorrelate, kept as the sequence of its non-zero runs: start index,  *)
(* length and amplitude.  Amplitudes are integers in units of 1/AmpScale,  *)
(* so they are exact float32 values and every sum below is exact in the    *)
(* double arithmetic of the code; correlations are in units of             *)
(* 1/AmpScale^2.                                                           *)

bufferSize == 4096
AmpScale == 128

\* the value of an absent array element (c[k] for an index never written)
Undefined == -999998

Run(start, len, amp) == [start |-> start, len |-> len, amp |-> amp]

Max2(a, b) == IF a > b THEN a ELSE b

\* sum of f[lo..hi]
RECURSIVE SumRange(_, _, _)
SumRange(f, lo, hi) ==
    IF lo > hi THEN 0
    ELSE IF lo = hi THEN f[lo]
    ELSE LET mid == (lo + hi) \div 2
         IN  SumRange(f, lo, mid) + SumRange(f, mid + 1, hi)

\* buf[i]
Sample(buf, i) ==
    IF \E k \in 1..Len(buf) : buf[k].start <= i /\ i < buf[k].start + buf[k].len
    THEN buf[CHOOSE k \in 1..Len(buf) : buf[k].start <= i /\ i < buf[k].start + buf[k].len].amp
    ELSE 0

\* Math.abs(x) < thres, thres = 0.2
BelowThres(amp) == Abs(amp) * 10 < 2 * AmpScale

\* the sum of buf[i] * buf[i] over the indices lo <= i < hi
Energy(buf, lo, hi) ==
    SumRange([k \in 1..Len(buf) |->
                 LET a == Max2(buf[k].start, lo)
                     b == Min2(buf[k].start + buf[k].len, hi)
                 IN  IF b > a THEN (b - a) * buf[k].amp * buf[k].amp ELSE 0],
             1, Len(buf))

\* the gate with the comparison replaced by a test for an all-zero frame
IsSilent_ZeroOnly(buf) == Energy(buf, 0, bufferSize) = 0

\* rms < config.silenceRMS with rms = sqrt(sum / buf.length), silenceRMS = 0.015:
\* sum / (AmpScale^2 * bufferSize) < 0.000225 = 9 / 40000
IsSilent(buf) ==
    Energy(buf, 0, bufferSize) <= (9 * AmpScale * AmpScale * bufferSize - 1) \div 40000

\* script.js:1190  the first i < buf.length / 2 with |buf[i]| < thres, else 0.
\* The first quiet index is 0 or the index right after a loud run.
TrimStart(buf) ==
    LET cand == {0} \cup {buf[k].start + buf[k].len : k \in 1..Len(buf)}
        quiet == {i \in cand : i < bufferSize \div 2 /\ BelowThres(Sample(buf, i))}
    IN  IF quiet = {} THEN 0
        ELSE CHOOSE i \in quiet : \A j \in quiet : i <= j

\* the second trim loop run over the whole buffer, i = 1 .. buf.length - 1
TrimEnd_WholeBuffer(buf) ==
    LET cand == {bufferSize - 1} \cup {buf[k].start - 1 : k \in 1..Len(buf)}
        quiet == {i \in cand : /\ i >= 1
                               /\ i <= bufferSize - 1
                               /\ BelowThres(Sample(buf, i))}
    IN  IF quiet = {} THEN bufferSize - 1
        ELSE CHOOSE i \in quiet : \A j \in quiet : i >= j

\* script.js:1191  the first index bufferSize - i, i = 1 .. buf.length / 2 - 1, with
\* |buf[bufferSize - i]| < thres, else bufferSize - 1.
\* The last quiet index is bufferSize - 1 or the index right before a loud run.
TrimEnd(buf) ==
    LET cand == {bufferSize - 1} \cup {buf[k].start - 1 : k \in 1..Len(buf)}
        quiet == {i \in cand : /\ i > bufferSize \div 2
                               /\ i <= bufferSize - 1
                               /\ BelowThres(Sample(buf, i))}
    IN  IF quiet = {} THEN bufferSize - 1
        ELSE CHOOSE i \in quiet : \A j \in quiet : i >= j

\* the number of i with s covering i and t covering i + offset, both inside
\* buf2 = buf.slice(r1, r2)
PairCount(s, t, offset, r1, r2) ==
    LET lo == Max2(Max2(s.start, r1), Max2(t.start, r1) - offset)
        hi == Min2(Min2(s.start + s.len, r2), Min2(t.start + t.len, r2) - offset)
    IN  IF hi > lo THEN hi - lo ELSE 0

\* script.js:1197-1200  corr = sum of buf2[i] * buf2[i + offset], i < buf2.length - offset
Correlate(buf, offset, r1, r2) ==
    LET n == Len(buf)
    IN  SumRange([k \in 1..(n * n) |->
                     LET s == buf[((k - 1) \div n) + 1]
                         t == buf[((k - 1) % n) + 1]
                     IN  s.amp * t.amp * PairCount(s, t, offset, r1, r2)],
                 1, n * n)

\* script.js:1196-1202  c[offset] = corr for offset = lo..hi, as an explicit function
RECURSIVE CorrelateAll(_, _, _, _, _)
CorrelateAll(buf, r1, r2, lo, hi) ==
    IF lo = hi THEN lo :> Correlate(buf, lo, r1, r2)
    ELSE LET mid == (lo + hi) \div 2
         IN  CorrelateAll(buf, r1, r2, lo, mid) @@ CorrelateAll(buf, r1, r2, mid + 1, hi)

\* c[k] after the loop of script.js:1195-1202: the lags 30..799 are written,
\* an index below buf2.length keeps the fill value 0, any other is absent
CAt(c, len, k) ==
    IF k \in DOMAIN c THEN c[k]
    ELSE IF k >= 0 /\ k < len THEN 0
    ELSE Undefined

\* a > b in JavaScript: false when either side is undefined
JsGt(a, b) == a # Undefined /\ b # Undefined /\ a > b

\* x || 0 for a number or undefined
OrZero(x) == IF x = Undefined THEN 0 ELSE x

\* the peak test without the comparison with the right neighbour
IsPeak_NoRight(c, len, maxVal, i) ==
    /\ 5 * c[i] > 4 * maxVal
    /\ JsGt(c[i], CAt(c, len, i - 1))

\* c[i] > peakThresh && c[i] > c[i - 1] && c[i] > c[i + 1], peakThresh = maxVal * 0.8
IsPeak(c, len, maxVal, i) ==
    /\ 5 * c[i] > 4 * maxVal
    /\ JsGt(c[i], CAt(c, len, i - 1))
    /\ JsGt(c[i], CAt(c, len, i + 1))

\* script.js:1209-1215  for (i = 30; i < 799; i++) if (...) { bestPeriod = i; break; }
\* the first i in lo..hi that passes the test, -1 when none does
RECURSIVE FirstPeakIn(_, _, _, _, _)
FirstPeakIn(c, len, maxVal, lo, hi) ==
    IF lo = hi THEN IF IsPeak(c, len, maxVal, lo) THEN lo ELSE -1
    ELSE LET mid == (lo + hi) \div 2
             first == FirstPeakIn(c, len, maxVal, lo, mid)
         IN  IF first # -1 THEN first ELSE FirstPeakIn(c, len, maxVal, mid + 1, hi)

FindPeak(c, len, maxVal) == FirstPeakIn(c, len, maxVal, 30, 798)

\* the largest of c[lo..hi]
RECURSIVE RangeMax(_, _, _)
RangeMax(c, lo, hi) ==
    IF lo = hi THEN c[lo]
    ELSE LET mid == (lo + hi) \div 2
         IN  Max2(RangeMax(c, lo, mid), RangeMax(c, mid + 1, hi))

\* script.js:1217-1225  maxCorr = -1; for (i = 30; i < 800; i++) if (c[i] > maxCorr) ...
\* : the first lag holding the largest value, when that value is above -1
Fallback(c) ==
    LET m == RangeMax(c, 30, 799)
    IN  IF m > 0 - AmpScale * AmpScale
        THEN CHOOSE i \in 30..799 : c[i] = m /\ \A j \in 30..(i - 1) : c[j] # m
        ELSE -1

\* autoCorrelate(buf, sampleRate, rms of buf): the returned frequency with the
\* intermediate values c, maxVal, bestPeriod after the peak loop (peak) and
\* bestPeriod after the fallback
autoCorrelate(buf, sampleRate) ==
    IF IsSilent(buf)
    THEN [freq |-> NoPitch, silent |-> TRUE, len |-> 0, c |-> <<>>, maxVal |-> 0,
          peak |-> -1, bestPeriod |-> -1]
    ELSE LET r1 == TrimStart(buf)
             r2 == TrimEnd(buf)
             len == r2 - r1
             c == CorrelateAll(buf, r1, r2, 30, 799)
             maxVal == Energy(buf, r1, r2)
             peak == FindPeak(c, len, maxVal)
             bestPeriod == IF peak # -1 THEN peak ELSE Fallback(c)
             freq == IF bestPeriod # -1
                     THEN Interpolate(OrZero(CAt(c, len, bestPeriod - 1)),
                                      c[bestPeriod],
                                      OrZero(CAt(c, len, bestPeriod + 1)),
                                      bestPeriod, sampleRate)
                     ELSE NoPitch
         IN  [freq |-> freq, silent |-> FALSE, len |-> len, c |-> c, maxVal |-> maxVal,
              peak |-> peak, bestPeriod |-> bestPeriod]

Spike(pos, amp) == Run(pos, 1, amp)

\* amplitudes of a train of eight clicks 100 samples apart, and of five bursts
\* 799 samples apart
TrainAmps == <<77, 47, 128, 78, 128, 78, 77, 47>>
BurstAmps == <<64, 111, 128, 111, 64>>

FrameIds == {"zero", "quiet", "click", "clicks30", "clicks582", "clicks799", "train",
             "plateau", "bursts", "lump", "loud", "tail"}

\* the frames offered to autoCorrelate
FrameBuf(id) ==
    CASE id = "zero" -> <<>>
      \* two weak clicks, below the silence gate
      [] id = "quiet" -> <<Spike(1, 64), Spike(101, 64)>>
      \* one full-scale click
      [] id = "click" -> <<Spike(1, 128)>>
      \* two full-scale clicks 30, 582 and 799 samples apart
      [] id = "clicks30" -> <<Spike(1, 128), Spike(31, 128)>>
      [] id = "clicks582" -> <<Spike(1, 128), Spike(583, 128)>>
      [] id = "clicks799" -> <<Spike(1, 128), Spike(800, 128)>>
      \* a click train whose odd clicks are weaker: c[100] and c[200] both pass
      \* the threshold and c[200] is the larger
      [] id = "train" -> [k \in 1..8 |-> Spike(1 + 100 * (k - 1), TrainAmps[k])]
      \* five bursts of 300 samples, each followed by a click 31 samples after its
      \* end: c[30] = c[31] is the largest value, c[799] the only peak
      [] id = "plateau" ->
            [k \in 1..10 |->
                LET j == (k - 1) \div 2
                IN  IF k % 2 = 1 THEN Run(1 + 799 * j, 300, BurstAmps[j + 1])
                    ELSE Spike(331 + 799 * j, BurstAmps[j + 1])]
      \* two full-scale bursts with a small negative offset between them:
      \* c is below -1 at every lag 30..799
      [] id = "bursts" -> <<Run(1, 29, 128), Run(30, 800, -4), Run(830, 29, 128)>>
      \* a short burst followed by a small negative offset: c[30] = -1/16384,
      \* c[31] = -2/16384, every other lag lower
      [] id = "lump" -> <<Run(1, 6, 128), Run(7, 797, -1)>>
      \* full scale everywhere but for 20 samples in the middle: buf2 has 19 samples
      [] id = "loud" -> <<Run(0, 2040, 128), Run(2060, 2036, 128)>>
      \* silence, then half scale up to the last sample: no quiet sample in the
      \* second half of the buffer
      [] id = "tail" -> <<Run(1500, 2596, 64)>>

\* autoCorrelate tabulated over the frames (evaluated once)
AcTable == [id \in FrameIds |-> autoCorrelate(FrameBuf(id), SampleRate)]


\* SineAmp * sin(2 * pi * k / 400), k = 0..100, rounded to the nearest integer,
\* for the amplitude SineAmp = 64 (half of full scale)
SineQuarter == <<
      0, 1, 2, 3, 4, 5, 6, 7, 8, 9, 10, 11, 12, 13, 14, 15,
      16, 17, 18, 19, 20, 21, 22, 23, 24, 24, 25, 26, 27, 28, 29, 30,
      31, 32, 33, 33, 34, 35, 36, 37, 38, 38, 39, 40, 41, 42, 42, 43,
      44, 45, 45, 46, 47, 47, 48, 49, 49, 50, 51, 51, 52, 52, 53, 53,
      54, 55, 55, 56, 56, 57, 57, 57, 58, 58, 59, 59, 60, 60, 60, 61,
      61, 61, 61, 62, 62, 62, 62, 63, 63, 63, 63, 63, 63, 64, 64, 64,
      64, 64, 64, 64, 64 >>

\* the sample of that sine at any phase index p >= 0
Sin400(p) ==
    LET q == p % 400
    IN  IF q <= 100 THEN SineQuarter[q + 1]
        ELSE IF q <= 200 THEN SineQuarter[201 - q]
        ELSE IF q <= 300 THEN 0 - SineQuarter[q - 199]
        ELSE 0 - SineQuarter[401 - q]

\* the sines offered to autoCorrelate, of m cycles per 400 samples:
\* f = m * sampleRate / 400, 120 Hz and 1200 Hz at 48 kHz
SineIds == {"sine120", "sine1200"}
SineCycles(id) == IF id = "sine120" THEN 1 ELSE 10

\* the frame holding such a sine over its whole length, sample by sample
SineBuf(m) == [i \in 0..(bufferSize - 1) |-> Sin400(m * i)]

\* the sum of x[i] * x[i] over lo <= i < hi, for a frame given sample by sample
SampleEnergy(x, lo, hi) == SumRange([i \in lo..(hi - 1) |-> x[i] * x[i]], lo, hi - 1)

\* script.js:1190 and 1191 for a frame given sample by sample
RECURSIVE SampleTrimStart(_, _)
SampleTrimStart(x, i) ==
    IF i >= bufferSize \div 2 THEN 0
    ELSE IF BelowThres(x[i]) THEN i
    ELSE SampleTrimStart(x, i + 1)

RECURSIVE SampleTrimEnd(_, _)
SampleTrimEnd(x, i) ==
    IF i >= bufferSize \div 2 THEN bufferSize - 1
    ELSE IF BelowThres(x[bufferSize - i]) THEN bufferSize - i
    ELSE SampleTrimEnd(x, i + 1)

\* script.js:1197-1200 for a frame given sample by sample
SampleCorrelate(x, offset, r1, r2) ==
    SumRange([i \in r1..(r2 - offset - 1) |-> x[i] * x[i + offset]], r1, r2 - offset - 1)

\* autoCorrelate(buf, sampleRate, rms of buf) for a frame given sample by sample:
\* the returned frequency
autoCorrelateSamples(x, sampleRate) ==
    IF SampleEnergy(x, 0, bufferSize) <= (9 * AmpScale * AmpScale * bufferSize - 1) \div 40000
    THEN NoPitch
    ELSE LET r1 == SampleTrimStart(x, 0)
             r2 == SampleTrimEnd(x, 1)
             len == r2 - r1
             c == [offset \in 30..799 |-> SampleCorrelate(x, offset, r1, r2)]
             maxVal == SampleEnergy(x, r1, r2)
             peak == FindPeak(c, len, maxVal)
             bestPeriod == IF peak # -1 THEN peak ELSE Fallback(c)
         IN  IF bestPeriod # -1
             THEN Interpolate(OrZero(CAt(c, len, bestPeriod - 1)),
                              c[bestPeriod],
                              OrZero(CAt(c, len, bestPeriod + 1)),
                              bestPeriod, sampleRate)
             ELSE NoPitch

\* autoCorrelate tabulated over the sines (evaluated once)
SineTable == [id \in SineIds |-> autoCorrelateSamples(SineBuf(SineCycles(id)), SampleRate)]

-----------------------------------------------------------------------------
(* State machine *)

\* null, and the one oscillator reference the model tells from null
NullRef == "null"
OscRef == "osc"

\* no tone button; a tone button is known by its note and by whether it is
\* still in the DOM (renderStringButtons replaces every button by a new element)
NoBtn == [note |-> NullNote.note, inDom |-> FALSE]
ToneBtn(note) == [note |-> note, inDom |-> TRUE]

\* the value of recentTunings in the specifications that leave the stored list
\* out of the state: addToRecent is then not followed
RecentUntracked == <<[inst |-> "untracked", name |-> "", notes |-> <<>>]>>

\* the state after the script has run, but for the stored recent list
InitTuner ==
    /\ isRunning = FALSE
    /\ guitarStrings = InitialGuitarStrings
    /\ stringBtns = Keys(InitialGuitarStrings)
    \* script.js:276-284 restores the saved string or AUTO
    /\ currentString \in {AUTO} \cup Keys(InitialGuitarStrings)
    /\ timeInTune = 0
    /\ hasPlayedSound = FALSE
    /\ pendingStarts = 0
    /\ rafPending = 0
    /\ activeInstrument = "guitar"
    /\ activeTuningName = "Standard"
    /\ isChromaticMode = FALSE
    /\ ev = [op |-> "init", kind |-> "", freq |-> 0, note |-> NullNote.note,
             fired |-> FALSE, wasPlayed |-> FALSE, frame |-> NoFrame]
    /\ dwellNotes = {}
    /\ activeOscillator = NullRef
    /\ activeToneBtn = NoBtn
    /\ liveOscillators = 0
    \* script.js:130-139, 802 with nothing in localStorage 'custom-tunings'
    /\ customTunings = <<>>
    /\ editingTuningId = NullId
    /\ tempEditingState = [strings |-> <<>>]
    /\ activeStringEditIndex = -1
    /\ editorOpen = FALSE
    /\ pickerOpen = FALSE
    /\ stringsAlias = NullId
    /\ editClicks = 0

Init == InitTuner /\ recentTunings = RecentUntracked

\* the same with an empty stored list, which is then followed
InitRecent == InitTuner /\ recentTunings = <<>>

\* startTuner up to its first await (click on Start, or DOMContentLoaded), with
\* at most n calls suspended at a time
StartTunerCallUpTo(n) ==
    /\ ~isRunning
    /\ pendingStarts < n
    /\ pendingStarts' = pendingStarts + 1
    /\ ev' = Plain("startTunerCall")
    /\ UNCHANGED <<isRunning, currentString, timeInTune, hasPlayedSound, guitarStrings,
                   stringBtns, rafPending, activeInstrument, activeTuningName,
                   isChromaticMode, dwellNotes, toneVars, recentTunings, editorVars>>

StartTunerCall == StartTunerCallUpTo(MaxPendingStarts)

\* startTuner after getUserMedia resolved: script.js:207-217, with at most n
\* updateLoop callbacks queued at a time
StartTunerResumeUpTo(n) ==
    /\ pendingStarts > 0
    /\ rafPending < n
    /\ pendingStarts' = pendingStarts - 1
    /\ isRunning' = TRUE
    /\ rafPending' = rafPending + 1
    /\ ev' = Plain("startTunerResume")
    /\ UNCHANGED <<currentString, timeInTune, hasPlayedSound, guitarStrings, stringBtns,
                   activeInstrument, activeTuningName, isChromaticMode, dwellNotes,
                   toneVars, recentTunings, editorVars>>

StartTunerResume == StartTunerResumeUpTo(MaxRafPending)

\* startTuner when an await rejects: the catch block, script.js:219-224
StartTunerFail ==
    /\ pendingStarts > 0
    /\ pendingStarts' = pendingStarts - 1
    /\ ev' = Plain("startTunerFail")
    /\ UNCHANGED <<isRunning, currentString, timeInTune, hasPlayedSound, guitarStrings,
                   stringBtns, rafPending, activeInstrument, activeTuningName,
                   isChromaticMode, dwellNotes, toneVars, recentTunings, editorVars>>

\* script.js:912-926
stopReferenceTone ==
    /\ activeOscillator' = NullRef
    /\ liveOscillators' = IF activeOscillator # NullRef THEN liveOscillators - 1
                          ELSE liveOscillators
    /\ activeToneBtn' = NoBtn

\* stopTuner (with resetUI), reached from the Start/Stop button while running
stopTuner ==
    /\ isRunning
    /\ stopReferenceTone
    /\ isRunning' = FALSE
    /\ ev' = Plain("stopTuner")
    /\ UNCHANGED <<currentString, timeInTune, hasPlayedSound, guitarStrings, stringBtns,
                   pendingStarts, rafPending, activeInstrument, activeTuningName,
                   isChromaticMode, dwellNotes, recentTunings, editorVars>>

\* updateLoop called while the tuner is stopped: returns without re-requesting a frame
UpdateLoopStopped ==
    /\ rafPending > 0
    /\ ~isRunning
    /\ rafPending' = rafPending - 1
    /\ ev' = Plain("updateLoopStopped")
    /\ UNCHANGED <<isRunning, currentString, timeInTune, hasPlayedSound, guitarStrings,
                   stringBtns, pendingStarts, activeInstrument, activeTuningName,
                   isChromaticMode, dwellNotes, toneVars, recentTunings, editorVars>>

\* updateLoop on one frame: frequency is autoCorrelate's result for the buffer
\* named frame, dt = time - lastFrameTime
UpdateLoopOn(frame, frequency, dt) ==
    /\ rafPending > 0
    /\ isRunning
    /\ LET r == processPitch(frequency, dt)
       IN  /\ r.timeInTune <= MaxTimeInTune
           /\ timeInTune' = r.timeInTune
           /\ hasPlayedSound' = r.hasPlayedSound
           \* a TypeError in processPitch skips requestAnimationFrame(updateLoop)
           /\ rafPending' = IF r.kind = "throw" THEN rafPending - 1 ELSE rafPending
           /\ ev' = [Event("frame", r.kind, frequency, r.note, r.fired) EXCEPT !.frame = frame]
           /\ dwellNotes' =
                CASE r.kind = "inTune" ->
                        (IF timeInTune = 0 THEN {} ELSE dwellNotes) \cup {r.note}
                  [] r.kind \in {"outOfTune", "silent"} -> {}
                  [] OTHER -> dwellNotes
    /\ UNCHANGED <<isRunning, currentString, guitarStrings, stringBtns, pendingStarts,
                   activeInstrument, activeTuningName, isChromaticMode, toneVars,
                   recentTunings, editorVars>>

\* updateLoop on a frame given by the frequency autoCorrelate found in it
UpdateLoop(frequency, dt) == UpdateLoopOn(NoFrame, frequency, dt)

\* updateLoop on a frame given by its samples
updateLoop(id, dt) == UpdateLoopOn(id, AcTable[id].freq, dt)

\* resetProcessing without the hasPlayedSound assignment
resetProcessing_KeepsSound ==
    /\ hasPlayedSound' = hasPlayedSound
    /\ timeInTune' = 0
    /\ dwellNotes' = {}

\* script.js:322-327
resetProcessing ==
    /\ hasPlayedSound' = FALSE
    /\ timeInTune' = 0
    /\ dwellNotes' = {}

\* selectString(btn) for a button in the DOM; script.js:299 throws before
\* resetProcessing when the note is not a key of guitarStrings
selectString(note) ==
    /\ note \in stringBtns
    /\ currentString' = note
    /\ IF HasKey(guitarStrings, note)
       THEN /\ resetProcessing
            /\ ev' = Event("selectString", "", 0, note, FALSE)
       ELSE /\ UNCHANGED <<hasPlayedSound, timeInTune, dwellNotes>>
            /\ ev' = Event("selectString", "throw", 0, note, FALSE)
    /\ UNCHANGED <<isRunning, guitarStrings, stringBtns, pendingStarts, rafPending,
                   activeInstrument, activeTuningName, isChromaticMode, toneVars,
                   recentTunings, editorVars>>

activateAutoMode ==
    /\ currentString' = AUTO
    /\ resetProcessing
    /\ ev' = Plain("activateAutoMode")
    /\ UNCHANGED <<isRunning, guitarStrings, stringBtns, pendingStarts, rafPending,
                   activeInstrument, activeTuningName, isChromaticMode, toneVars,
                   recentTunings, editorVars>>

SeqRange(s) == {s[i] : i \in 1..Len(s)}

\* the tone buttons after stringGrid has been rebuilt: the button that started
\* the tone is no longer in the DOM
Rerendered(btn) == IF btn = NoBtn THEN NoBtn ELSE [btn EXCEPT !.inDom = FALSE]

\* the list without its entries for (inst, name)
RECURSIVE WithoutTuning(_, _, _)
WithoutTuning(recent, inst, name) ==
    IF recent = <<>> THEN <<>>
    ELSE IF Head(recent).inst = inst /\ Head(recent).name = name
         THEN WithoutTuning(Tail(recent), inst, name)
         ELSE <<Head(recent)>> \o WithoutTuning(Tail(recent), inst, name)

\* addToRecent without the removal of the existing entry
addToRecent_NoFilter(recent, inst, name, notes) ==
    LET added == <<[inst |-> inst, name |-> name, notes |-> notes]>> \o recent
    IN  IF Len(added) > 5 THEN SubSeq(added, 1, Len(added) - 1) ELSE added

\* script.js:604-613  the list addToRecent stores
addToRecent(recent, inst, name, notes) ==
    LET added == <<[inst |-> inst, name |-> name, notes |-> notes]>>
                     \o WithoutTuning(recent, inst, name)
    IN  IF Len(added) > 5 THEN SubSeq(added, 1, Len(added) - 1) ELSE added

\* applyTuning without the closing activateAutoMode call
applyTuning_KeepsPinned(instrument, tuningName, notesArray) ==
    /\ activeInstrument' = instrument
    /\ activeTuningName' = tuningName
    /\ isChromaticMode' = (instrument = "chromatic")
    /\ guitarStrings' = TargetStrings(instrument, notesArray)
    /\ stringBtns' = IF instrument = "chromatic" THEN {} ELSE SeqRange(notesArray)
    /\ activeToneBtn' = Rerendered(activeToneBtn)
    /\ recentTunings' =
          IF instrument \in {"custom", "chromatic"} \/ recentTunings = RecentUntracked
          THEN recentTunings
          ELSE addToRecent(recentTunings, instrument, tuningName, notesArray)
    /\ ev' = Plain("applyTuning")
    /\ UNCHANGED <<isRunning, pendingStarts, rafPending, activeOscillator, liveOscillators,
                   currentString, hasPlayedSound, timeInTune, dwellNotes>>

\* applyTuning(instrument, tuningName, notesArray, isCustom); isCustom is true
\* exactly in the calls whose instrument is 'custom'
applyTuning(instrument, tuningName, notesArray) ==
    /\ activeInstrument' = instrument
    /\ activeTuningName' = tuningName
    /\ isChromaticMode' = (instrument = "chromatic")
    /\ guitarStrings' = TargetStrings(instrument, notesArray)
    /\ stringBtns' = IF instrument = "chromatic" THEN {} ELSE SeqRange(notesArray)
    /\ activeToneBtn' = Rerendered(activeToneBtn)
    /\ recentTunings' =
          IF instrument \in {"custom", "chromatic"} \/ recentTunings = RecentUntracked
          THEN recentTunings
          ELSE addToRecent(recentTunings, instrument, tuningName, notesArray)
    \* activateAutoMode()
    /\ currentString' = AUTO
    /\ resetProcessing
    /\ ev' = Plain("applyTuning")
    /\ UNCHANGED <<isRunning, pendingStarts, rafPending, activeOscillator, liveOscillators>>

ApplyBuiltIn ==
    /\ \E key \in InstrumentKeys : \E i \in 1..Len(INSTRUMENTS[key]) :
          applyTuning(key, INSTRUMENTS[key][i].name, INSTRUMENTS[key][i].notes)
    /\ UNCHANGED editorVars

ApplyChromatic ==
    /\ applyTuning("chromatic", "Chromatic", <<>>)
    /\ UNCHANGED editorVars

ApplyCustom ==
    /\ \E notes \in CustomTunings : applyTuning("custom", "Custom", notes)
    /\ UNCHANGED editorVars

\* a click on a row of "My Tunings" (script.js:504-505) whose entry came from storage
ApplyStored ==
    /\ \E notes \in StoredTunings : applyTuning("custom", "Stored", notes)
    /\ UNCHANGED editorVars

\* headstock toggle: re-renders the buttons of the active built-in tuning
HeadstockToggle ==
    /\ ~isChromaticMode
    /\ activeInstrument \in InstrumentKeys
    /\ \E i \in 1..Len(INSTRUMENTS[activeInstrument]) :
          /\ INSTRUMENTS[activeInstrument][i].name = activeTuningName
          /\ \A j \in 1..(i - 1) : INSTRUMENTS[activeInstrument][j].name # activeTuningName
          /\ stringBtns' = SeqRange(INSTRUMENTS[activeInstrument][i].notes)
    /\ activeToneBtn' = Rerendered(activeToneBtn)
    /\ ev' = Plain("headstockToggle")
    /\ UNCHANGED <<isRunning, currentString, timeInTune, hasPlayedSound, guitarStrings,
                   pendingStarts, rafPending, activeInstrument, activeTuningName,
                   isChromaticMode, dwellNotes, activeOscillator, liveOscillators,
                   recentTunings, editorVars>>

Frame == \E frequency \in FrameFreqs : \E dt \in DtSet : UpdateLoop(frequency, dt)

SelectAny == \E note \in stringBtns : selectString(note)

Next ==
    \/ StartTunerCall
    \/ StartTunerResume
    \/ StartTunerFail
    \/ stopTuner
    \/ UpdateLoopStopped
    \/ Frame
    \/ SelectAny
    \/ activateAutoMode
    \/ ApplyBuiltIn
    \/ ApplyChromatic
    \/ ApplyCustom
    \/ HeadstockToggle

Spec == Init /\ [][Next]_vars

\* the tuner fed with sample buffers instead of frequencies, and with tunings
\* read from storage
AnalyseFrame == \E id \in FrameIds : \E dt \in DtSet : updateLoop(id, dt)

\* updateLoop on a frame holding a sine
AnalyseSine == \E id \in SineIds : \E dt \in DtSet : UpdateLoopOn(id, SineTable[id], dt)

NextAC ==
    \/ StartTunerCall
    \/ StartTunerResume
    \/ StartTunerFail
    \/ stopTuner
    \/ UpdateLoopStopped
    \/ AnalyseFrame
    \/ SelectAny
    \/ activateAutoMode
    \/ ApplyStored
    \/ AnalyseSine

SpecAC == Init /\ [][NextAC]_vars

-----------------------------------------------------------------------------
(* The reference tone, script.js:891-944 *)

\* toggleReferenceTone without the stopReferenceTone call before the new tone
toggleReferenceTone_NoStop(note) ==
    /\ note \in stringBtns
    /\ IF activeToneBtn = ToneBtn(note)
       THEN /\ stopReferenceTone
            /\ ev' = Event("toggleReferenceTone", "stop", 0, note, FALSE)
       ELSE /\ activeOscillator' = OscRef
            /\ liveOscillators' = liveOscillators + 1
            /\ activeToneBtn' = ToneBtn(note)
            /\ ev' = Event("toggleReferenceTone", "play", 0, note, FALSE)
    /\ UNCHANGED <<isRunning, currentString, timeInTune, hasPlayedSound, guitarStrings,
                   stringBtns, pendingStarts, rafPending, activeInstrument,
                   activeTuningName, isChromaticMode, dwellNotes, recentTunings, editorVars>>

\* toggleReferenceTone(btn) for the tone button of a note in the DOM; a throw at
\* guitarStrings[note].freq comes after stopReferenceTone
toggleReferenceTone(note) ==
    /\ note \in stringBtns
    /\ IF activeToneBtn = ToneBtn(note)
       THEN /\ stopReferenceTone
            /\ ev' = Event("toggleReferenceTone", "stop", 0, note, FALSE)
       ELSE IF ~HasKey(guitarStrings, note)
       THEN /\ stopReferenceTone
            /\ ev' = Event("toggleReferenceTone", "throw", 0, note, FALSE)
       ELSE \* stopReferenceTone(); playToneLoop(freq); activeToneBtn = btn
            /\ activeOscillator' = OscRef
            /\ liveOscillators' =
                  (IF activeOscillator # NullRef THEN liveOscillators - 1
                   ELSE liveOscillators) + 1
            /\ activeToneBtn' = ToneBtn(note)
            /\ ev' = Event("toggleReferenceTone", "play", 0, note, FALSE)
    /\ UNCHANGED <<isRunning, currentString, timeInTune, hasPlayedSound, guitarStrings,
                   stringBtns, pendingStarts, rafPending, activeInstrument,
                   activeTuningName, isChromaticMode, dwellNotes, recentTunings, editorVars>>

ToggleAny == \E note \in stringBtns : toggleReferenceTone(note)

NextTone ==
    \/ StartTunerCall
    \/ StartTunerResume
    \/ StartTunerFail
    \/ stopTuner
    \/ UpdateLoopStopped
    \/ ToggleAny
    \/ SelectAny
    \/ ApplyChromatic
    \/ ApplyCustom
    \/ HeadstockToggle

SpecTone == Init /\ [][NextTone]_vars

-----------------------------------------------------------------------------
(* Start, stop and the frame callbacks with more than one startTuner call  *)
(* or callback chain in flight                                             *)

StartTunerCallRace == StartTunerCallUpTo(MaxRacingStarts)

StartTunerResumeRace == StartTunerResumeUpTo(MaxChains)

\* time - lastFrameTime (ms) for the first callback after startTuner:
\* lastFrameTime is performance.now() read in startTuner (script.js:216), time
\* is the timestamp of the animation frame, taken when that frame began
FirstDtSet == {-5, 350}

\* the first updateLoop callback after startTuner resumed (followed from
\* timeInTune = 0)
FirstFrame ==
    /\ ev.op = "startTunerResume"
    /\ timeInTune = 0
    /\ \E frequency \in FrameFreqs : \E dt \in FirstDtSet : UpdateLoop(frequency, dt)

NextLife ==
    \/ StartTunerCallRace
    \/ StartTunerResumeRace
    \/ StartTunerFail
    \/ stopTuner
    \/ UpdateLoopStopped
    \/ FirstFrame
    \/ Frame
    \/ SelectAny
    \/ activateAutoMode

SpecLife == Init /\ [][NextLife]_vars

-----------------------------------------------------------------------------
(* The recent list, script.js:604-638 *)

\* built-in tunings offered to the recent list, as (instrument, index)
RecentOrder == << <<"guitar", 1>>, <<"bass", 1>>, <<"guitar", 2>>, <<"bass", 2>>,
                 <<"ukulele", 1>>, <<"violin", 1>>, <<"folk", 1>>, <<"guitar", 3>> >>

\* a click on a built-in row of the tuning screen
ApplyRecentChoice ==
    /\ \E k \in 1..MaxRecentChoices :
          LET tuning == INSTRUMENTS[RecentOrder[k][1]][RecentOrder[k][2]]
          IN  applyTuning(RecentOrder[k][1], tuning.name, tuning.notes)
    /\ UNCHANGED editorVars

\* a click on a row of the recent list: script.js:635
ApplyFromRecent ==
    /\ \E i \in 1..Len(recentTunings) :
          applyTuning(recentTunings[i].inst, recentTunings[i].name, recentTunings[i].notes)
    /\ UNCHANGED editorVars

NextRecent ==
    \/ ApplyRecentChoice
    \/ ApplyFromRecent
    \/ ApplyChromatic
    \/ ApplyCustom

SpecRecent == InitRecent /\ [][NextRecent]_vars

-----------------------------------------------------------------------------
(* The custom tuning editor and its note picker, script.js:645-880.  The   *)
(* buttons of the editor answer while the editor is shown, also with the   *)
(* picker open above it; the buttons of the picker answer while the picker *)
(* is shown.                                                               *)

\* a slot of a JS array that was never assigned (forEach skips it), and the
\* value undefined
EmptySlot == <<"<empty>", 0>>
UndefinedNote == <<"undefined", 0>>

\* script.js:671
DefaultStrings ==
    << <<"E", 2>>, <<"A", 2>>, <<"D", 3>>, <<"G", 3>>, <<"B", 3>>, <<"E", 4>> >>

\* tempPickerState at the time the apply button is clicked: a cell of the
\* grid (script.js:842) and an octave button
PickerChoices == {<<"D#", 3>>}

\* rows whose note pill is clicked, as 0-based indices: the first and the last
\* row of a list of n
PickRows(n) == {0, n - 1}

\* contents of the name field at save time
NameInputs == {""}

\* script.js:743  `Custom ${tempEditingState.strings.length}-String`
DefaultName(n) ==
    <<"Custom 1-String", "Custom 2-String", "Custom 3-String", "Custom 4-String",
      "Custom 5-String", "Custom 6-String", "Custom 7-String", "Custom 8-String",
      "Custom 9-String">>[n]

\* every variable outside the editor, except ev
tunerVars == <<isRunning, currentString, timeInTune, hasPlayedSound, guitarStrings,
               stringBtns, pendingStarts, rafPending, activeInstrument,
               activeTuningName, isChromaticMode, dwellNotes, toneVars, recentTunings>>

\* [...t.notes] : the iterator reads an empty slot as undefined
Spread(notes) ==
    [i \in 1..Len(notes) |-> IF notes[i] = EmptySlot THEN UndefinedNote ELSE notes[i]]

\* arr[index] = value for a 0-based index: slots between the old end and index
\* stay empty
ArraySet(arr, index, value) ==
    [i \in 1..Max2(Len(arr), index + 1) |->
        IF i = index + 1 THEN value
        ELSE IF i <= Len(arr) THEN arr[i] ELSE EmptySlot]

\* the elements forEach visits, in order
Visited(arr) == SelectSeq(arr, LAMBDA x : x # EmptySlot)

HasTuning(id) == \E k \in 1..Len(customTunings) : customTunings[k].id = id

\* customTunings.find(c => c.id === tuningId)
TuningById(id) ==
    customTunings[CHOOSE k \in 1..Len(customTunings) : customTunings[k].id = id]

\* 'ct_' + Date.now(): an id no saved tuning has
NewId == CHOOSE id \in 1..(Len(customTunings) + 1) : ~HasTuning(id)

\* a change of the array tempEditingState.strings, seen also through the saved
\* tuning whose notes field is the same array (script.js:752, 762)
WriteStrings(new) ==
    /\ tempEditingState' = [tempEditingState EXCEPT !.strings = new]
    /\ customTunings' =
          [k \in 1..Len(customTunings) |->
              IF customTunings[k].id = stringsAlias
              THEN [customTunings[k] EXCEPT !.notes = new]
              ELSE customTunings[k]]

\* script.js:654-682
openCustomEditor(tuningId) ==
    /\ editingTuningId' = tuningId
    /\ IF tuningId # NullId /\ ~HasTuning(tuningId)
       THEN UNCHANGED <<tempEditingState, editorOpen, stringsAlias>>
       ELSE /\ tempEditingState' =
                  [strings |-> IF tuningId # NullId
                               THEN Spread(TuningById(tuningId).notes)
                               ELSE DefaultStrings]
            /\ stringsAlias' = NullId
            /\ editorOpen' = TRUE
    /\ ev' = Plain("openCustomEditor")
    /\ UNCHANGED <<customTunings, activeStringEditIndex, pickerOpen,
                   tunerVars, editClicks>>

\* script.js:645-648  the "custom" button, while a further tuning can be saved
OpenNew ==
    /\ ~editorOpen
    /\ Len(customTunings) < MaxSavedTunings
    /\ openCustomEditor(NullId)

\* script.js:703-708
StringsMinusClick ==
    /\ editorOpen
    /\ Len(tempEditingState.strings) > 1
    /\ editClicks < MaxEditClicks
    /\ WriteStrings(SubSeq(tempEditingState.strings, 1, Len(tempEditingState.strings) - 1))
    /\ editClicks' = editClicks + 1
    /\ ev' = Plain("customEditor")
    /\ UNCHANGED <<editingTuningId, activeStringEditIndex, editorOpen,
                   pickerOpen, stringsAlias, tunerVars>>

\* the plus handler with its length test off by one (< 9)
StringsPlusClick_NoLimit ==
    /\ editorOpen
    /\ Len(tempEditingState.strings) < 9
    /\ LET last == tempEditingState.strings[Len(tempEditingState.strings)]
       IN  WriteStrings(Append(tempEditingState.strings,
                               IF last \in {EmptySlot, UndefinedNote}
                               THEN <<"E", 2>> ELSE last))
    /\ editClicks < MaxEditClicks
    /\ editClicks' = editClicks + 1
    /\ ev' = Plain("customEditor")
    /\ UNCHANGED <<editingTuningId, activeStringEditIndex, editorOpen,
                   pickerOpen, stringsAlias, tunerVars>>

\* script.js:710-718
StringsPlusClick ==
    /\ editorOpen
    /\ Len(tempEditingState.strings) < 8
    /\ LET last == tempEditingState.strings[Len(tempEditingState.strings)]
       IN  WriteStrings(Append(tempEditingState.strings,
                               IF last \in {EmptySlot, UndefinedNote}
                               THEN <<"E", 2>> ELSE last))
    /\ editClicks < MaxEditClicks
    /\ editClicks' = editClicks + 1
    /\ ev' = Plain("customEditor")
    /\ UNCHANGED <<editingTuningId, activeStringEditIndex, editorOpen,
                   pickerOpen, stringsAlias, tunerVars>>

\* script.js:806-822; currentNote.match throws on undefined after the index was stored
openNotePicker(index) ==
    /\ activeStringEditIndex' = index
    /\ LET currentNote == tempEditingState.strings[index + 1]
       IN  IF currentNote = UndefinedNote
           THEN /\ UNCHANGED pickerOpen
                /\ ev' = Event("openNotePicker", "throw", 0, NullNote.note, FALSE)
           ELSE /\ pickerOpen' = TRUE
                /\ ev' = Plain("customEditor")
    /\ UNCHANGED <<customTunings, editingTuningId, tempEditingState, editorOpen,
                   stringsAlias, tunerVars, editClicks>>

\* script.js:697  a click on the note pill of a row renderEditorStrings built
OpenPickerAny ==
    /\ editorOpen
    /\ \E index \in PickRows(Len(tempEditingState.strings)) :
          /\ tempEditingState.strings[index + 1] # EmptySlot
          /\ openNotePicker(index)

\* script.js:865-872
finishNotePick(fullNote) ==
    /\ editClicks < MaxEditClicks
    /\ IF activeStringEditIndex >= 0
       THEN /\ WriteStrings(ArraySet(tempEditingState.strings, activeStringEditIndex,
                                     fullNote))
            /\ editClicks' = editClicks + 1
       ELSE UNCHANGED <<tempEditingState, customTunings, editClicks>>
    \* closeNotePicker()
    /\ pickerOpen' = FALSE
    /\ activeStringEditIndex' = -1
    /\ ev' = Plain("customEditor")
    /\ UNCHANGED <<editingTuningId, editorOpen, stringsAlias, tunerVars>>

\* script.js:861-863  the apply button of the picker, with tempPickerState
\* holding what the grid and the octave buttons were last set to
ApplyNoteClick ==
    /\ pickerOpen
    /\ \E fullNote \in PickerChoices : finishNotePick(fullNote)

\* script.js:874-879, from the close button of the picker
closeNotePicker ==
    /\ pickerOpen
    /\ pickerOpen' = FALSE
    /\ activeStringEditIndex' = -1
    /\ ev' = Plain("customEditor")
    /\ UNCHANGED <<customTunings, editingTuningId, tempEditingState, 
                   editorOpen, stringsAlias, tunerVars, editClicks>>

\* script.js:725-727
CancelCustomClick ==
    /\ editorOpen
    /\ editorOpen' = FALSE
    /\ ev' = Plain("customEditor")
    /\ UNCHANGED <<customTunings, editingTuningId, tempEditingState,
                   activeStringEditIndex, pickerOpen, stringsAlias,
                   tunerVars, editClicks>>

\* script.js:742-795 with the name field holding input.  applyTuning's forEach
\* skips empty slots and throws in getNoteFreq on undefined, before
\* guitarStrings is assigned.  The closing headstock branch re-renders the same
\* buttons.
saveCustomTuning(input) ==
    LET strings == tempEditingState.strings
        name == IF input = "" THEN DefaultName(Len(strings)) ELSE input
    IN  /\ IF editingTuningId # NullId
           THEN /\ customTunings' =
                      [k \in 1..Len(customTunings) |->
                          IF customTunings[k].id = editingTuningId
                          THEN [customTunings[k] EXCEPT !.name = name, !.notes = strings]
                          ELSE customTunings[k]]
                /\ stringsAlias' =
                      IF HasTuning(editingTuningId) THEN editingTuningId ELSE stringsAlias
                /\ UNCHANGED editingTuningId
           ELSE /\ Len(customTunings) < MaxSavedTunings
                /\ customTunings' =
                      Append(customTunings, [id |-> NewId, name |-> name, notes |-> strings])
                /\ editingTuningId' = NewId
                /\ stringsAlias' = NewId
        /\ editorOpen' = FALSE
        /\ IF \E i \in 1..Len(strings) : strings[i] = UndefinedNote
           THEN /\ activeInstrument' = "custom"
                /\ activeTuningName' = name
                /\ isChromaticMode' = FALSE
                /\ ev' = Event("saveCustomTuning", "throw", 0, NullNote.note, FALSE)
                /\ UNCHANGED <<isRunning, currentString, timeInTune, hasPlayedSound,
                               guitarStrings, stringBtns, pendingStarts, rafPending,
                               dwellNotes, toneVars, recentTunings>>
           ELSE applyTuning("custom", name, Visited(strings))
        /\ UNCHANGED <<tempEditingState, activeStringEditIndex, 
                       pickerOpen, editClicks>>

\* script.js:729-731
SaveCustomClick ==
    /\ editorOpen
    /\ \E input \in NameInputs : saveCustomTuning(input)

NextEditor ==
    \/ OpenNew
    \/ StringsMinusClick
    \/ StringsPlusClick
    \/ OpenPickerAny
    \/ ApplyNoteClick
    \/ closeNotePicker
    \/ CancelCustomClick
    \/ SaveCustomClick

\* the state after loading with no pinned string saved
InitEditor == Init /\ currentString = AUTO

SpecEditor == InitEditor /\ [][NextEditor]_vars

-----------------------------------------------------------------------------
(* Properties *)

IsFrame == ev.op = "frame"
Resolved == ev.kind \in {"inTune", "outOfTune"}
StreakBreak == ev.kind \in {"silent", "unresolved", "outOfTune"}

\* C1: within a run of in-tolerance frames playConfirmationSound is invoked on
\* exactly the frame on which timeInTune becomes greater than stableDuration:
\* an in-tolerance frame fires if and only if it is that crossing frame.
C1_OneShotOnCrossing ==
    [][(ev'.op = "frame" /\ ev'.kind = "inTune")
         => (ev'.fired <=> (timeInTune <= stableDuration /\ timeInTune' > stableDuration))]_vars

\* C2: after a frame that is silent, unresolved or out of tolerance, timeInTune
\* is 0 (stated for the frames whose frequency is a number or the sentinel).
C2_BreakResetsDwell ==
    (IsFrame /\ StreakBreak /\ ev.freq # NaN) => timeInTune = 0

\* C3: after a confirmation has fired, a frame that is silent, unresolved or
\* out of tolerance leaves hasPlayedSound false (the confirmation is re-armed);
\* stated for the frames whose frequency is a number or the sentinel.
C3_BreakRearms ==
    (IsFrame /\ StreakBreak /\ ev.freq # NaN /\ ev.wasPlayed) => ~hasPlayedSound

\* C4: whenever timeInTune > 0, the frames that added to it since it was last 0
\* all resolved to one and the same note.
C4_DwellOneTarget ==
    timeInTune > 0 => Cardinality(dwellNotes) <= 1

\* C5: right after selectString, activateAutoMode or applyTuning,
\* timeInTune = 0 and hasPlayedSound = FALSE.
C5_SelectionResets ==
    ev.op \in {"selectString", "activateAutoMode", "applyTuning"}
        => (timeInTune = 0 /\ hasPlayedSound = FALSE)

\* a selection made after the confirmation had fired
C5_Witness ==
    /\ ev.op \in {"selectString", "activateAutoMode", "applyTuning"}
    /\ ev.wasPlayed
    /\ timeInTune = 0
    /\ ~hasPlayedSound

\* C6: after stopTuner, timeInTune = 0 and hasPlayedSound = FALSE.
C6_StopResets ==
    ev.op = "stopTuner" => (timeInTune = 0 /\ hasPlayedSound = FALSE)

\* C7: with a pinned string s, a frame is resolved if and only if
\* s.min <= frequency <= s.max (both inclusive); a resolved frame is attributed
\* to the pinned string and an unresolved one to no note.
C7_ManualWindowExact ==
    (IsFrame /\ currentString # AUTO /\ ev.kind \in {"inTune", "outOfTune", "unresolved"})
        => LET s == Lookup(guitarStrings, currentString)
               inside == ev.freq # NaN /\ s.min <= ev.freq /\ ev.freq <= s.max
           IN  /\ Resolved <=> inside
               /\ Resolved => ev.note = currentString
               /\ ~Resolved => ev.note = NullNote.note

\* a manual-mode frame exactly on the lower bound of the pinned window, resolved
C7_Witness ==
    /\ IsFrame
    /\ currentString # AUTO
    /\ HasKey(guitarStrings, currentString)
    /\ ev.freq = Lookup(guitarStrings, currentString).min
    /\ Resolved
    /\ ev.note = currentString

\* C8: in auto mode detectNote yields no note for an empty target set, and some
\* note for a non-empty set and every value autoCorrelate hands over other than
\* the -1 sentinel.
C8_AutoTotal ==
    (IsFrame /\ currentString = AUTO /\ ev.freq # NoPitch)
        => (Resolved <=> Len(guitarStrings) > 0)

\* windows of the table that contain f, by position
Containing(strs, f) == {i \in 1..Len(strs) : strs[i].min <= f /\ f <= strs[i].max}

SetMin(S) == CHOOSE x \in S : \A y \in S : x <= y

C9_WitnessFirst ==
    /\ IsFrame
    /\ currentString = AUTO
    /\ ev.freq \notin {NoPitch, NaN}
    /\ Cardinality(Containing(guitarStrings, ev.freq)) > 1
    /\ Resolved

\* C10: in every target set held in guitarStrings no frequency lies inside the
\* windows [min, max] of two distinct notes.
C10_WindowsDisjoint ==
    \A i, j \in 1..Len(guitarStrings) :
        i # j => (guitarStrings[i].max < guitarStrings[j].min
                  \/ guitarStrings[j].max < guitarStrings[i].min)

\* the same for the tables built by applyTuning only
C10_AppliedDisjoint ==
    ev.op = "applyTuning" => C10_WindowsDisjoint

\* C11: in chromatic mode the note detectNote returns is a note of the chromatic
\* set whose reference frequency has the smallest |frequency - freq|; stated for
\* the frames whose frequency equals the reference frequency of a note of the
\* set, where the smallest distance is 0: such a frame resolves to a note with
\* exactly that reference frequency (0 cents, in tune).
C11_ChromaticClosest ==
    (/\ IsFrame
     /\ isChromaticMode
     /\ currentString = AUTO
     /\ \E j \in 1..Len(guitarStrings) : guitarStrings[j].freq = ev.freq)
        => /\ ev.kind = "inTune"
           /\ \E i \in 1..Len(guitarStrings) :
                 guitarStrings[i].note = ev.note /\ guitarStrings[i].freq = ev.freq

\* the standard pitch class of a note name: semitones above C
PitchClass(n) ==
    CASE n = "C" -> 0
      [] n \in {"C#", "Db"} -> 1
      [] n = "D" -> 2
      [] n \in {"D#", "Eb"} -> 3
      [] n = "E" -> 4
      [] n = "F" -> 5
      [] n \in {"F#", "Gb"} -> 6
      [] n = "G" -> 7
      [] n \in {"G#", "Ab"} -> 8
      [] n = "A" -> 9
      [] n \in {"A#", "Bb"} -> 10
      [] n = "B" -> 11

\* 440 * 2^(k/12) for the note's standard semitone distance k from A4
StandardFreq(note) == EqualTemperament(note[2] * 12 + PitchClass(note[1]))

\* C12: every frequency getNoteFreq produced for a target table is the standard
\* equal-temperament frequency of its note, and two notes of different pitch
\* class in the same octave never have the same frequency.
C12_EqualTemperament ==
    \A i \in 1..Len(guitarStrings) :
        /\ guitarStrings[i].freq = StandardFreq(guitarStrings[i].note)
        /\ \A j \in 1..Len(guitarStrings) :
              (/\ guitarStrings[i].note[2] = guitarStrings[j].note[2]
               /\ PitchClass(guitarStrings[i].note[1]) # PitchClass(guitarStrings[j].note[1]))
                 => guitarStrings[i].freq # guitarStrings[j].freq

-----------------------------------------------------------------------------
(* Properties of autoCorrelate, checked under SpecAC *)

\* a frame analysed from its samples, and what autoCorrelate computed for it
IsBufFrame == ev.op = "frame" /\ ev.frame \in FrameIds
FrameRun == AcTable[ev.frame]

\* sum of squares / (AmpScale^2 * bufferSize) < 0.015^2, for the frame in ev
RmsBelowGate ==
    LET e == Energy(FrameBuf(ev.frame), 0, bufferSize)
    IN  e < 20000 /\ e * 40000 < 9 * AmpScale * AmpScale * bufferSize

\* C13: whenever the frame's RMS is below config.silenceRMS, autoCorrelate returns
\* the -1 sentinel whatever the samples are, and processPitch on that frame
\* resolves no note, computes no cents and fires no confirmation.
C13_SilenceGate ==
    (IsBufFrame /\ RmsBelowGate)
        => /\ ev.freq = NoPitch
           /\ ev.kind = "silent"
           /\ ev.note = NullNote.note
           /\ ~ev.fired

\* a frame with non-zero samples below the gate, analysed after the confirmation
\* had fired
C13_Witness ==
    /\ IsBufFrame
    /\ RmsBelowGate
    /\ Energy(FrameBuf(ev.frame), 0, bufferSize) > 0
    /\ ev.wasPlayed
    /\ ev.freq = NoPitch
    /\ ev.kind = "silent"

\* the lags 30..799 that pass the threshold and local-maximum test
Qualifying(run) == {i \in 30..799 : IsPeak(run.c, run.len, run.maxVal, i)}

C15_FallbackYields ==
    (IsBufFrame /\ ~FrameRun.silent /\ FrameRun.len > 0 /\ Qualifying(FrameRun) = {})
        => /\ FrameRun.bestPeriod \in 30..799
           /\ FrameRun.c[FrameRun.bestPeriod] = RangeMax(FrameRun.c, 30, 799)
           /\ ev.freq # NoPitch

\* c[L-1] - 2*c[L] + c[L+1] at the chosen lag, missing neighbours counted as 0
Curvature(run) ==
    OrZero(CAt(run.c, run.len, run.bestPeriod - 1))
        - 2 * run.c[run.bestPeriod]
        + OrZero(CAt(run.c, run.len, run.bestPeriod + 1))

\* C16: when the chosen lag L has c[L-1] - 2*c[L] + c[L+1] = 0, autoCorrelate
\* uses shift = 0 and returns sampleRate / L, never NaN or an infinite result.
C16_FlatGuard ==
    (IsBufFrame /\ ~FrameRun.silent /\ FrameRun.bestPeriod # -1 /\ Curvature(FrameRun) = 0)
        => ev.freq = (SampleRate * 100) \div FrameRun.bestPeriod

\* C17: the value autoCorrelate returns is the -1 sentinel or a finite number
\* greater than 0, so the cents of a resolved frame are computed from a
\* positive finite frequency.
C17_PositiveOnly ==
    IsBufFrame
        => \/ ev.freq = NoPitch
           \/ (ev.freq \notin {NaN, Infinity} /\ ev.freq > 0)

-----------------------------------------------------------------------------
(* Properties of the target tables *)

\* C19: every entry of the initial table and of every table applyTuning builds
\* from a built-in list, chromatic mode, the recent list or the custom editor
\* has freq > 0 and min < freq < max.
C19_WindowAroundFreq ==
    \A i \in 1..Len(guitarStrings) :
        /\ guitarStrings[i].freq > 0
        /\ guitarStrings[i].min < guitarStrings[i].freq
        /\ guitarStrings[i].freq < guitarStrings[i].max

\* a table applyTuning built for a tuning saved by the custom editor, holding a
\* note the picker spells with a sharp
C19_Witness ==
    /\ ev.op = "applyTuning"
    /\ activeInstrument = "custom"
    /\ HasKey(guitarStrings, <<"D#", 3>>)
    /\ Lookup(guitarStrings, <<"D#", 3>>).min < Lookup(guitarStrings, <<"D#", 3>>).freq

\* C20: applyTuning never installs an entry whose window has min >= max: a call
\* given such a note fails and leaves guitarStrings as it was.
C20_MalformedRejected ==
    \A i \in 1..Len(guitarStrings) : guitarStrings[i].min < guitarStrings[i].max

-----------------------------------------------------------------------------
(* Properties of the frame loop and of the rest of the program *)

\* a frame holding a sine, and the frequency of that sine in cHz
IsSineFrame == ev.op = "frame" /\ ev.frame \in SineIds
SineFreq(id) == (SineCycles(id) * SampleRate * 100) \div 400

\* C25: for a frame holding a sine of frequency f with 30 <= sampleRate / f < 800
\* and amplitude well above the silence gate, autoCorrelate returns a frequency
\* within 0.5% of f.
C25_SineAccuracy ==
    IsSineFrame
        => /\ ev.freq \notin {NoPitch, NaN, Infinity}
           /\ 200 * Abs(ev.freq - SineFreq(ev.frame)) <= SineFreq(ev.frame)

\* C26: in every reachable state currentString is 'AUTO' or a key of
\* guitarStrings, so the manual branch of processPitch always finds its entry.
C26_PinnedExists ==
    /\ currentString = AUTO \/ HasKey(guitarStrings, currentString)
    /\ ~(IsFrame /\ ev.kind = "throw")

\* C21: in a run of frames that resolve to one target within tolerance, the
\* confirmation fires as soon as the summed dt exceeds stableDuration: the frame
\* that takes timeInTune above stableDuration fires it.
C21_ConfirmationReached ==
    [][(ev'.op = "frame" /\ ev'.kind = "inTune"
          /\ timeInTune <= stableDuration /\ timeInTune' > stableDuration)
         => ev'.fired]_vars

\* C22: in every reachable state timeInTune >= 0.
C22_DwellNonNegative == timeInTune >= 0

\* C23: at most one updateLoop callback chain is alive at any time.
C23_OneChain == rafPending <= 1

\* C24: once stopTuner has run, isRunning stays false as long as no start
\* request is issued: a step right after stopTuner that is not a new call of
\* startTuner leaves the tuner stopped.
C24_StopIsFinal ==
    [][(ev.op = "stopTuner" /\ ev'.op # "startTunerCall") => ~isRunning']_vars

\* a frame resolved for a string pinned in a custom tuning
C26_Witness ==
    /\ IsFrame
    /\ Resolved
    /\ activeInstrument = "custom"
    /\ currentString # AUTO
    /\ ev.note = currentString
    /\ HasKey(guitarStrings, currentString)

\* C27: for every frame of config.bufferSize samples the trim points satisfy
\* r1 < bufferSize / 2 < r2 <= bufferSize - 1, so buf.slice(r1, r2) is not empty.
C27_TrimBounds ==
    (IsBufFrame /\ ~FrameRun.silent)
        => LET r1 == TrimStart(FrameBuf(ev.frame))
               r2 == TrimEnd(FrameBuf(ev.frame))
           IN  /\ r1 < bufferSize \div 2
               /\ bufferSize \div 2 < r2
               /\ r2 <= bufferSize - 1
               /\ FrameRun.len = r2 - r1
               /\ FrameRun.len > 0

\* a frame with no quiet sample in its second half: r2 keeps bufferSize - 1
C27_Witness ==
    /\ IsBufFrame
    /\ ev.frame = "tail"
    /\ TrimStart(FrameBuf(ev.frame)) = 0
    /\ TrimEnd(FrameBuf(ev.frame)) = bufferSize - 1
    /\ ev.freq # NoPitch

\* the lag the first-qualifying-peak scan chose, -1 when it chose none
PeakOf(run) == run.peak

\* C28: whenever the period L is chosen by the first-qualifying-peak scan,
\* c[L-1] - 2*c[L] + c[L+1] < 0 and |shift| < 1/2, so the refined period lies
\* strictly between L - 1/2 and L + 1/2.
C28_ShiftBounded ==
    (IsBufFrame /\ ~FrameRun.silent /\ PeakOf(FrameRun) # -1)
        => LET L == FrameRun.bestPeriod
               prev == OrZero(CAt(FrameRun.c, FrameRun.len, L - 1))
               next == OrZero(CAt(FrameRun.c, FrameRun.len, L + 1))
           IN  /\ L = PeakOf(FrameRun)
               /\ Curvature(FrameRun) < 0
               /\ Abs(prev - next) < Abs(Curvature(FrameRun))
               /\ ev.freq * (2 * L - 1) < 2 * SampleRate * 100
               /\ (ev.freq + 1) * (2 * L + 1) > 2 * SampleRate * 100

\* a click train whose peak at lag 100 has unequal neighbours
C28_Witness ==
    /\ IsBufFrame
    /\ ev.frame = "train"
    /\ PeakOf(FrameRun) = 100
    /\ FrameRun.bestPeriod = 100
    /\ ev.freq > 0

\* C29: at most one started-and-not-stopped oscillator exists, activeOscillator
\* is non-null exactly when activeToneBtn is non-null, and toggling the active
\* tone button leaves both null.
C29_OneTone ==
    /\ liveOscillators <= 1
    /\ (activeOscillator # NullRef) <=> (activeToneBtn # NoBtn)
    /\ (activeOscillator # NullRef) => liveOscillators = 1
    /\ (ev.op = "toggleReferenceTone" /\ ev.kind = "stop")
          => (activeOscillator = NullRef /\ activeToneBtn = NoBtn /\ liveOscillators = 0)

\* a second tone button toggled while a tone was playing
C29_Witness ==
    /\ ev.op = "toggleReferenceTone"
    /\ ev.kind = "play"
    /\ liveOscillators = 1
    /\ activeToneBtn = ToneBtn(<<"A", 2>>)
    /\ isRunning

\* C30: starting from an empty list, the stored list has at most 5 entries, no
\* two entries with the same (inst, name), no chromatic or custom entry, and
\* the most recently applied built-in tuning first.
C30_RecentDiscipline ==
    /\ Len(recentTunings) <= 5
    /\ \A i, j \in 1..Len(recentTunings) :
          (recentTunings[i].inst = recentTunings[j].inst
             /\ recentTunings[i].name = recentTunings[j].name) => i = j
    /\ \A i \in 1..Len(recentTunings) : recentTunings[i].inst \in InstrumentKeys
    /\ (recentTunings # <<>> /\ activeInstrument \in InstrumentKeys)
          => /\ recentTunings[1].inst = activeInstrument
             /\ recentTunings[1].name = activeTuningName
             /\ SeqRange(recentTunings[1].notes) = stringBtns

\* a full list to whose front a tuning from its last row has just been brought
C30_Witness ==
    /\ Len(recentTunings) = 5
    /\ ev.op = "applyTuning"
    /\ recentTunings[1].inst = "bass"
    /\ recentTunings[1].name = "Standard"
    /\ recentTunings[2].inst = "guitar"
    /\ recentTunings[2].name = "Standard"

\* C31: once openCustomEditor has run, whatever plus, minus and note-pick
\* actions follow, tempEditingState.strings has between 1 and 8 elements, and
\* every tuning the editor saved has between 1 and 8 elements of which at
\* least one is a note.
C31_StringCount ==
    /\ ev.op # "init" =>
          (Len(tempEditingState.strings) >= 1 /\ Len(tempEditingState.strings) <= 8)
    /\ \A k \in 1..Len(customTunings) :
          /\ Len(customTunings[k].notes) >= 1
          /\ Len(customTunings[k].notes) <= 8
          /\ \E i \in 1..Len(customTunings[k].notes) :
                customTunings[k].notes[i] \notin {EmptySlot, UndefinedNote}

\* a new tuning saved after plus, minus and a note pick: the pick was applied
\* to the eighth row after strings had been removed, so the list has eight
\* elements again with an empty slot before the picked note
C31_Witness ==
    /\ \E k \in 1..Len(customTunings) :
          /\ Len(customTunings[k].notes) = 8
          /\ customTunings[k].notes[8] = <<"D#", 3>>
          /\ customTunings[k].notes[7] = EmptySlot
    /\ ev.op = "applyTuning"
    /\ ~editorOpen

====
